---------------------------- MODULE Spec2Model ----------------------------
(***************************************************************************)
(* Execution-ledger core of homestar: Workflow Info and its gather         *)
(* protocol (homestar-runtime/src/workflow/info.rs), the runtime Receipt   *)
(* (homestar-runtime/src/receipt.rs) and the Task entity                   *)
(* (homestar-core/src/workflow/task.rs).                                   *)
(*                                                                         *)
(* Five specifications share the module:                                   *)
(*   Spec        the gather protocol with its collaborators                *)
(*   SpecInfo    one Workflow Info value under its mutators                *)
(*   SpecReceipt one runtime Receipt under its public operations           *)
(*   SpecCodec   Task / Receipt / Info values through encode and decode    *)
(*   SpecRuntime gather calls as flows on the worker threads of a runtime  *)
(***************************************************************************)
EXTENDS Integers, Sequences, FiniteSets, TLC

VARIABLES
    \* ---- gather protocol (Spec) ----
    pc,          \* per call: "idle" | "send" | "wait" | "done"
    wf,          \* per call: the workflow the call was given
    lookup,      \* per call: outcome of the initial join: "none" | "hit" | "absent" | "io"
    arm,         \* per call: the match arm that produced the result
    result,      \* per call: the value gather returned
    sentQuery,   \* per call: TRUE once the call has sent Event::FindRecord
    wrote,       \* per call: TRUE once the call has written to persistence
    conn,        \* per call: TRUE while the call holds the Connection it was given
    elapsed,     \* per call: time spent suspended since gather was called
    remaining,   \* per call: time left until the Instant handed to recv_deadline
    reply,       \* per call: the buffer of its one-shot reply channel
    dbWorkflows, \* persistence: the `workflows` table, a set of Stored rows
    dbReceipts,  \* persistence: the `workflows_receipts` table, per workflow cid
    events,      \* the bounded mpsc channel of Events to the event handler
    rxClosed,    \* the receiving half of the event channel has been dropped
    pending,     \* queries the network collaborator has taken and not answered
    \* ---- Workflow Info (SpecInfo) ----
    info,        \* the Info value
    prevInfo,    \* the Info value before the last operation
    lastOp,      \* the last operation applied to it
    lastArg,     \* the identifier handed to the last increment_progress
    \* ---- runtime Receipt (SpecReceipt) ----
    receipt,     \* the Receipt value
    receiptOp,   \* the last operation applied to it
    \* ---- encode / decode (SpecCodec) ----
    subject,     \* the value under conversion: [kind, value]
    stage,       \* "value" | "encoded" | "altered" | "decoded" | "decoded_altered" | "identified"
    encoded,     \* its encoding as Ipld
    altered,     \* what was done to the encoding before it was decoded
    decoded,     \* the result of decoding the encoding
    ident        \* the Cid derived from the value

gvars == <<pc, wf, lookup, arm, result, sentQuery, wrote, conn, elapsed, remaining,
           reply, dbWorkflows, dbReceipts, events, rxClosed, pending>>
ivars == <<info, prevInfo, lastOp, lastArg>>
rvars == <<receipt, receiptOp>>
cvars == <<subject, stage, encoded, altered, decoded, ident>>
ovars == <<ivars, rvars, cvars>>  \* what the gather protocol leaves alone
vars  == <<gvars, ivars, rvars, cvars>>

(***************************************************************************)
(* Bounds of the model.                                                    *)
(***************************************************************************)
NumCalls == 1        \* call slots: gather calls that can be in flight together
NumWorkers == 1      \* worker threads of the runtime that polls the flows
ChanCap == 1         \* capacity of the bounded event channel
P2pTimeoutSecs == 1  \* workflow_settings.p2p_timeout_secs
MaxTime == 2         \* a suspended call is followed for this long
MaxReceipts == 1     \* receipts associated with one workflow
MaxProgress == 2     \* length of an Info's progress list in SpecInfo
MaxCount == 3        \* largest progress_count set or decoded
MaxPrf == 1          \* length of a proof chain
Bits == 4            \* width of the machine integers (32 in the program)

(***************************************************************************)
(* Machine integers: u32 and i32, and the `as` casts between them.  The     *)
(* model keeps the two's-complement arithmetic and scales the width from   *)
(* 32 bits down to Bits.                                                   *)
(***************************************************************************)
U32Max == 2^Bits - 1
I32Max == 2^(Bits - 1) - 1

AsU32(n) == n % (U32Max + 1)
AsI32(n) == LET m == n % (U32Max + 1) IN IF m > I32Max THEN m - (U32Max + 1) ELSE m

(***************************************************************************)
(* Content identifiers.  A Cid is the multicodec tag with the digest of    *)
(* the encoded value; the digest is modelled injectively by the encoded    *)
(* value itself.                                                           *)
(***************************************************************************)
DAG_CBOR == 113

\* Ipld, the generic data model: each value carries its kind.
INull == [tag |-> "null"]
IInteger(n) == [tag |-> "integer", val |-> n]
IString(s) == [tag |-> "string", val |-> s]
ILink(cid) == [tag |-> "link", cid |-> cid]
IList(items) == [tag |-> "list", items |-> items]
IMap(entries) == [tag |-> "map", entries |-> entries]

CidOf(ipld) == [codec |-> DAG_CBOR, hash |-> ipld]
NamedCid(s) == CidOf(IString(s))

(***************************************************************************)
(* Workflow Info.                                                          *)
(***************************************************************************)
InfoNew(cid, progress, num_tasks) ==
    [cid |-> cid, progress |-> progress,
     progress_count |-> AsU32(Len(progress)), num_tasks |-> num_tasks]

InfoDefault(cid, num_tasks) ==
    [cid |-> cid, progress |-> <<>>, progress_count |-> 0, num_tasks |-> num_tasks]

SetProgressCount(self, progress_count) ==
    [self EXCEPT !.progress_count = progress_count]

IncrementProgress(self, new_cid) ==
    LET pushed == Append(self.progress, new_cid)
    IN  [self EXCEPT !.progress = pushed,
                     !.progress_count = AsU32(AsU32(Len(pushed)) + 1)]


(***************************************************************************)
(* The values the gather protocol works on.                                *)
(***************************************************************************)
Calls == 1..NumCalls

\* The flows of a runtime: one more than the call slots that Spec follows,
\* so that a flow is there to run beside the calls in flight (SpecRuntime).
Flows == 1..(NumCalls + 1)

\* A workflow, by what gather takes from it: workflow.to_cid() and workflow.len().
WfA == [cid |-> NamedCid("wfA"), len |-> 2]
Workflows == {WfA}
NoWorkflow == [cid |-> NamedCid("none"), len |-> 0]

\* The identifier of a workflow this node was not asked about.
OtherCid == NamedCid("wfB")
WorkflowCids == {w.cid : w \in Workflows} \cup {OtherCid}
ReceiptCids == <<NamedCid("rcB"), NamedCid("rcA"), NamedCid("rcC")>>

\* Workflow Infos a peer may answer with: any identifier, any counts.
NetInfos ==
    {[cid |-> WfA.cid, progress |-> <<NamedCid("rcA")>>, progress_count |-> 1,
      num_tasks |-> U32Max],
     [cid |-> OtherCid, progress |-> <<>>, progress_count |-> 0, num_tasks |-> 1]}

\* FoundEvent: the Workflow variant, and the Receipt variant.
FoundWorkflow(i) == [tag |-> "Workflow", info |-> i]
FoundReceipt(r) == [tag |-> "Receipt", receipt |-> r]
FoundEvents == {FoundWorkflow(i) : i \in NetInfos} \cup {FoundReceipt(NamedCid("rcA"))}

NoResult == [tag |-> "none"]
Ok(i) == [tag |-> "ok", info |-> i]
Err(e) == [tag |-> "err", err |-> e]

SendError == [kind |-> "send"]
PersistenceError == [kind |-> "persistence"]
\* bail!("received unexpected event {event:?} for workflow {workflow_cid}")
UnexpectedEvent(event, workflow_cid) ==
    [kind |-> "unexpected_event", event |-> event, cid |-> workflow_cid]

(***************************************************************************)
(* Persistence.                                                            *)
(***************************************************************************)
PointerNew(cid) == cid

StoredNew(cid, num_tasks) == [cid |-> cid, num_tasks |-> num_tasks]

HasWorkflow(db, cid) == \E row \in db : row.cid = cid

SelectWorkflow(db, cid) == CHOOSE row \in db : row.cid = cid

\* Db::join_workflow_with_receipts: the projection with the receipt
\* identifiers associated with it, or an error: the row is absent, or the
\* store failed.
JoinWorkflowWithReceipts(workflow_cid, ioFail) ==
    IF ioFail THEN [ok |-> FALSE, why |-> "io"]
    ELSE IF ~HasWorkflow(dbWorkflows, workflow_cid) THEN [ok |-> FALSE, why |-> "absent"]
    ELSE [ok |-> TRUE, stored |-> SelectWorkflow(dbWorkflows, workflow_cid),
          receipts |-> dbReceipts[workflow_cid]]

\* Db::store_workflow: upsert of a projection, keyed by its identifier.
StoreWorkflow(db, stored) == {row \in db : row.cid # stored.cid} \cup {stored}

(***************************************************************************)
(* Info::gather.  A call slot runs one call at a time, from "idle" or      *)
(* "done" through the lookup, the send and the wait to "done".             *)
(***************************************************************************)
FindRecord(workflow_cid, tx) == [cid |-> workflow_cid, tx |-> tx]

\* The sending half of call c's reply channel travels in its query: it
\* exists while the query is queued or held by the network collaborator.
TxAlive(c) == c \in pending \/ \E k \in 1..Len(events) : events[k].tx = c

\* A call is suspended at its two await points.
Suspended(c) == pc[c] \in {"send", "wait"}

\* The call returns: its result is set, nothing of the call is left
\* suspended, and the borrow of the Connection ends.
Return(c, a, r) ==
    /\ pc' = [pc EXCEPT ![c] = "done"]
    /\ conn' = [conn EXCEPT ![c] = FALSE]
    /\ arm' = [arm EXCEPT ![c] = a]
    /\ result' = [result EXCEPT ![c] = r]
    /\ elapsed' = [elapsed EXCEPT ![c] = 0]
    /\ remaining' = [remaining EXCEPT ![c] = 0]

\* The receiving half of the reply channel is dropped with the call: a query
\* still queued keeps its place in the event channel, and answers nobody.
Orphan == 0

DropRx(c) ==
    /\ reply' = [reply EXCEPT ![c] = <<>>]
    /\ pending' = pending \ {c}
    /\ events' = [k \in 1..Len(events) |->
                    IF events[k].tx = c THEN [events[k] EXCEPT !.tx = Orphan]
                    ELSE events[k]]

\* The call and its lookup in persistence; on a hit the call returns.
GatherLookupResultDefault(workflow_cid, joined) ==
    Ok(InfoDefault(workflow_cid, AsU32(joined.stored.num_tasks)))

GatherLookupResult(workflow_cid, joined) ==
    Ok(InfoNew(workflow_cid, joined.receipts, AsU32(joined.stored.num_tasks)))

GatherLookup(c, w, ioFail) ==
    LET workflow_len == w.len
        workflow_cid == w.cid
        joined == JoinWorkflowWithReceipts(workflow_cid, ioFail)
    IN  /\ pc[c] \in {"idle", "done"}
        /\ \A d \in 1..(c - 1) : Suspended(d)
        /\ wf' = [wf EXCEPT ![c] = w]
        /\ sentQuery' = [sentQuery EXCEPT ![c] = FALSE]
        /\ wrote' = [wrote EXCEPT ![c] = FALSE]
        /\ IF joined.ok
           THEN /\ lookup' = [lookup EXCEPT ![c] = "hit"]
                /\ Return(c, "hit", GatherLookupResult(workflow_cid, joined))
           ELSE /\ lookup' = [lookup EXCEPT ![c] = joined.why]
                /\ pc' = [pc EXCEPT ![c] = "send"]
                /\ arm' = [arm EXCEPT ![c] = "none"]
                /\ result' = [result EXCEPT ![c] = NoResult]
                /\ conn' = [conn EXCEPT ![c] = TRUE]
                /\ UNCHANGED <<elapsed, remaining>>
        /\ UNCHANGED <<reply, dbWorkflows, dbReceipts, events, rxClosed, pending, ovars>>

\* event_sender.send(Event::FindRecord(..)).await? : an error when the
\* receiver is gone, suspended while the buffer is full.
GatherSend(c) ==
    /\ pc[c] = "send"
    /\ \/ /\ rxClosed
          /\ Return(c, "send", Err(SendError))
          /\ UNCHANGED <<sentQuery, events>>
       \/ /\ ~rxClosed
          /\ Len(events) < ChanCap
          /\ events' = Append(events, FindRecord(wf[c].cid, c))
          /\ sentQuery' = [sentQuery EXCEPT ![c] = TRUE]
          /\ remaining' = [remaining EXCEPT ![c] = P2pTimeoutSecs]
          /\ pc' = [pc EXCEPT ![c] = "wait"]
          /\ UNCHANGED <<arm, result, conn, elapsed>>
    /\ UNCHANGED <<wf, lookup, wrote, reply, dbWorkflows, dbReceipts, rxClosed,
                   pending, ovars>>

\* Db::store_workflow(Stored::new(Pointer::new(info.cid), info.num_tasks as i32), conn)?
\* followed by the return of the info.
GatherStoredProgressCount(i) == StoredNew(PointerNew(i.cid), AsI32(i.progress_count))

GatherStored(i) == StoredNew(PointerNew(i.cid), AsI32(i.num_tasks))

GatherStoreAndReturn(c, a, i, storeOk) ==
    IF storeOk
    THEN /\ dbWorkflows' = StoreWorkflow(dbWorkflows, GatherStored(i))
         /\ wrote' = [wrote EXCEPT ![c] = TRUE]
         /\ Return(c, a, Ok(i))
    ELSE /\ Return(c, a, Err(PersistenceError))
         /\ UNCHANGED <<dbWorkflows, wrote>>

\* recv_deadline returned Ok(event).
GatherOnEventOrDefault(c, event, storeOk) ==
    IF event.tag = "Workflow"
    THEN GatherStoreAndReturn(c, "workflow", event.info, storeOk)
    ELSE GatherStoreAndReturn(c, "unexpected", InfoDefault(wf[c].cid, wf[c].len), storeOk)

GatherOnEvent(c, event, storeOk) ==
    IF event.tag = "Workflow"
    THEN GatherStoreAndReturn(c, "workflow", event.info, storeOk)
    ELSE /\ Return(c, "unexpected", Err(UnexpectedEvent(event, wf[c].cid)))
         /\ UNCHANGED <<dbWorkflows, wrote>>

GatherRecv(c, storeOk) ==
    /\ pc[c] = "wait"
    /\ reply[c] # <<>>
    /\ GatherOnEvent(c, Head(reply[c]), storeOk)
    /\ DropRx(c)
    /\ UNCHANGED <<wf, lookup, sentQuery, dbReceipts, rxClosed, ovars>>

\* recv_deadline returned Err: the deadline passed, or the sender was dropped.
GatherOnRecvErrNoStore(c, storeOk) ==
    /\ Return(c, "timeout", Ok(InfoDefault(wf[c].cid, wf[c].len)))
    /\ UNCHANGED <<dbWorkflows, wrote>>

GatherOnRecvErr(c, storeOk) ==
    GatherStoreAndReturn(c, "timeout", InfoDefault(wf[c].cid, wf[c].len), storeOk)

GatherRecvErr(c, storeOk) ==
    /\ pc[c] = "wait"
    /\ reply[c] = <<>>
    /\ remaining[c] = 0 \/ ~TxAlive(c)
    /\ GatherOnRecvErr(c, storeOk)
    /\ DropRx(c)
    /\ UNCHANGED <<wf, lookup, sentQuery, dbReceipts, rxClosed, ovars>>

(***************************************************************************)
(* The collaborators.                                                      *)
(***************************************************************************)
\* The event handler takes the next event off the channel and hands a query
\* to the network.
HandlerTake ==
    /\ ~rxClosed
    /\ events # <<>>
    /\ pending' = pending \cup ({Head(events).tx} \ {Orphan})
    /\ events' = Tail(events)
    /\ UNCHANGED <<pc, wf, lookup, arm, result, sentQuery, wrote, conn, elapsed, remaining,
                   reply, dbWorkflows, dbReceipts, rxClosed, ovars>>

\* The network answers a query, once, on its reply channel.
NetworkReply(c, event) ==
    /\ c \in pending
    /\ pending' = pending \ {c}
    /\ reply' = [reply EXCEPT ![c] = <<event>>]
    /\ UNCHANGED <<pc, wf, lookup, arm, result, sentQuery, wrote, conn, elapsed, remaining,
                   dbWorkflows, dbReceipts, events, rxClosed, ovars>>

\* The network gives a query up and drops its reply channel.
NetworkDrop(c) ==
    /\ c \in pending
    /\ pending' = pending \ {c}
    /\ UNCHANGED <<pc, wf, lookup, arm, result, sentQuery, wrote, conn, elapsed, remaining,
                   reply, dbWorkflows, dbReceipts, events, rxClosed, ovars>>

\* The event handler stops: the receiver is dropped with the events in it.
HandlerClose ==
    /\ ~rxClosed
    /\ rxClosed' = TRUE
    /\ events' = <<>>
    /\ UNCHANGED <<pc, wf, lookup, arm, result, sentQuery, wrote, conn, elapsed, remaining,
                   reply, dbWorkflows, dbReceipts, pending, ovars>>

\* Another part of the runtime associates the next receipt with a stored
\* workflow.
StoreWorkflowReceipt(workflow_cid) ==
    /\ HasWorkflow(dbWorkflows, workflow_cid)
    /\ Len(dbReceipts[workflow_cid]) < MaxReceipts
    /\ dbReceipts' = [dbReceipts EXCEPT
                        ![workflow_cid] = Append(@, ReceiptCids[Len(@) + 1])]
    /\ UNCHANGED <<pc, wf, lookup, arm, result, sentQuery, wrote, conn, elapsed, remaining,
                   reply, dbWorkflows, events, rxClosed, pending, ovars>>

\* A suspended call is blocked while the event channel is full, or while no
\* reply has come and the deadline is ahead.
Blocked(c) ==
    \/ pc[c] = "send" /\ ~rxClosed /\ Len(events) >= ChanCap
    \/ pc[c] = "wait" /\ reply[c] = <<>> /\ remaining[c] > 0 /\ TxAlive(c)

\* A unit of time passes.  Steps of gather take no time: time passes only
\* while every suspended call is blocked.
Tick ==
    /\ \E c \in Flows : Suspended(c)
    /\ \A c \in Flows : Suspended(c) => Blocked(c) /\ elapsed[c] < MaxTime
    /\ elapsed' = [c \in Flows |-> IF Suspended(c) THEN elapsed[c] + 1 ELSE elapsed[c]]
    /\ remaining' = [c \in Flows |->
                       IF pc[c] = "wait" THEN remaining[c] - 1 ELSE remaining[c]]
    /\ UNCHANGED <<pc, wf, lookup, arm, result, sentQuery, wrote, conn, reply, dbWorkflows,
                   dbReceipts, events, rxClosed, pending, ovars>>

(***************************************************************************)
(* Workflow Info under its mutators (SpecInfo).                            *)
(***************************************************************************)
NoInfo == InfoDefault(NamedCid("none"), 0)

InfoCids == {NamedCid("rcA"), NamedCid("rcB")}
InfoNumTasks == {0, 2, U32Max}

\* Sequences over S of length at most n.
RECURSIVE SeqsUpTo(_, _)
SeqsUpTo(S, n) ==
    IF n = 0 THEN {<<>>}
    ELSE LET shorter == SeqsUpTo(S, n - 1)
         IN  shorter \cup {Append(q, x) : q \in {r \in shorter : Len(r) = n - 1}, x \in S}

InitInfoIdle ==
    /\ info = NoInfo
    /\ prevInfo = NoInfo
    /\ lastOp = "none"
    /\ lastArg = NamedCid("none")

InfoCreateNew(cid, progress, num_tasks) ==
    /\ lastOp = "none"
    /\ info' = InfoNew(cid, progress, num_tasks)
    /\ lastOp' = "new"
    /\ UNCHANGED <<prevInfo, lastArg, gvars, rvars, cvars>>

InfoCreateDefault(cid, num_tasks) ==
    /\ lastOp = "none"
    /\ info' = InfoDefault(cid, num_tasks)
    /\ lastOp' = "default"
    /\ UNCHANGED <<prevInfo, lastArg, gvars, rvars, cvars>>

InfoSetProgressCount(progress_count) ==
    /\ lastOp # "none"
    /\ prevInfo' = info
    /\ info' = SetProgressCount(info, progress_count)
    /\ lastOp' = "set_progress_count"
    /\ UNCHANGED <<lastArg, gvars, rvars, cvars>>

InfoIncrementProgress(new_cid) ==
    /\ lastOp # "none"
    /\ Len(info.progress) < MaxProgress
    /\ prevInfo' = info
    /\ info' = IncrementProgress(info, new_cid)
    /\ lastOp' = "increment_progress"
    /\ lastArg' = new_cid
    /\ UNCHANGED <<gvars, rvars, cvars>>

(***************************************************************************)
(* Conversions of the parts of a Task and of a Receipt.                    *)
(***************************************************************************)
Good(v) == [ok |-> TRUE, value |-> v]
\* An error carries its message, as the sequence of the words of the text.
Fail(msg) == [ok |-> FALSE, error |-> msg]

None == [some |-> FALSE]
Some(v) == [some |-> TRUE, val |-> v]

\* Pointer: a wrapper of one Cid, encoded as a link.
PointerToIpld(ptr) == ILink(ptr)
PointerFromIpld(i) == IF i.tag = "link" THEN Good(PointerNew(i.cid)) ELSE Fail(<<"not", "a", "link">>)

\* UcanPrf: the proof chain, an ordered list of links.
PrfToIpld(prf) == IList([k \in 1..Len(prf) |-> ILink(prf[k])])
PrfFromIpld(i) ==
    IF i.tag = "list" /\ \A k \in 1..Len(i.items) : i.items[k].tag = "link"
    THEN Good([k \in 1..Len(i.items) |-> i.items[k].cid])
    ELSE Fail(<<"not", "a", "list", "of", "links">>)

\* Instruction: resource, ability, input and nonce, encoded as a map.
InstructionToIpld(ins) ==
    IMap([k \in {"rsc", "op", "input", "nnc"} |->
            IF k = "rsc" THEN IString(ins.rsc)
            ELSE IF k = "op" THEN IString(ins.op)
            ELSE IF k = "input" THEN ins.input
            ELSE IString(ins.nnc)])
InstructionFromIpld(i) ==
    IF /\ i.tag = "map"
       /\ {"rsc", "op", "input", "nnc"} \subseteq DOMAIN i.entries
       /\ \A k \in {"rsc", "op", "nnc"} : i.entries[k].tag = "string"
    THEN Good([rsc |-> i.entries["rsc"].val, op |-> i.entries["op"].val,
               input |-> i.entries["input"], nnc |-> i.entries["nnc"].val])
    ELSE Fail(<<"not", "an", "instruction">>)

\* RunInstruction: the instruction inlined, or a pointer to it.
Expanded(ins) == [variant |-> "Expanded", instruction |-> ins]
Ptr(ptr) == [variant |-> "Ptr", pointer |-> ptr]
RunInstructionToIpld(run) ==
    IF run.variant = "Expanded" THEN InstructionToIpld(run.instruction)
    ELSE PointerToIpld(run.pointer)
RunInstructionFromIpld(i) ==
    IF i.tag = "map"
    THEN LET ins == InstructionFromIpld(i)
         IN  IF ins.ok THEN Good(Expanded(ins.value)) ELSE ins
    ELSE IF i.tag = "link" THEN Good(Ptr(PointerNew(i.cid)))
    ELSE Fail(<<"not", "a", "run", "instruction">>)

\* InstructionResult: a tag with the value.
ResultTags == {"ok", "error", "just"}
InstructionResultToIpld(out) == IList(<<IString(out.tag), out.value>>)
InstructionResultFromIpld(i) ==
    IF /\ i.tag = "list"
       /\ Len(i.items) = 2
       /\ i.items[1].tag = "string"
       /\ i.items[1].val \in ResultTags
    THEN Good([tag |-> i.items[1].val, value |-> i.items[2]])
    ELSE Fail(<<"unknown", "instruction", "result">>)

\* Issuer: a principal, written as its string form.
IssuerNew(principal) == [principal |-> principal]
IssuerToString(issuer) == issuer.principal
PrincipalFromIpld(i) == IF i.tag = "string" THEN Good(i.val) ELSE Fail(<<"not", "a", "principal">>)

\* from_ipld into a Cid, a String, a Vec<Cid>, a u32.
CidFromIpld(i) == IF i.tag = "link" THEN Good(i.cid) ELSE Fail(<<"not", "a", "link">>)
StringFromIpld(i) == IF i.tag = "string" THEN Good(i.val) ELSE Fail(<<"not", "a", "string">>)
CidsFromIpld(i) == PrfFromIpld(i)
U32FromIpld(i) ==
    IF i.tag = "integer" /\ i.val >= 0 /\ i.val <= U32Max THEN Good(i.val)
    ELSE Fail(<<"not", "a", "u32">>)

\* map.get(key)
HasKey(map, key) == key \in DOMAIN map

\* The keys that try_from fetches with ok_or_else: a missing one is an error.
RequiredKeys(kind) ==
    IF kind = "task" THEN {"run", "meta", "prf"}
    ELSE IF kind = "receipt"
         THEN {"cid", "ran", "instruction", "out", "meta", "prf", "version"}
    ELSE {"cid", "progress", "progress_count", "num_tasks"}

\* The keys fetched with and_then: Task's cause and Receipt's iss.
OptionalKeys(kind) ==
    IF kind = "task" THEN {"cause"}
    ELSE IF kind = "receipt" THEN {"iss"}
    ELSE {}

AllKeys ==
    UNION {RequiredKeys(kind) \cup OptionalKeys(kind) : kind \in {"task", "receipt", "info"}}

(***************************************************************************)
(* Task.                                                                   *)
(***************************************************************************)
TaskNewWithCause(run, meta, prf, cause) ==
    [run |-> run, cause |-> cause, meta |-> meta, prf |-> prf]

TaskNew(run, meta, prf) == TaskNewWithCause(run, meta, prf, None)

\* impl From<Task> for Ipld, with the proof chain left out.
TaskToIpldNoPrf(task) ==
    IMap([k \in {"run", "cause", "meta"} |->
            IF k = "run" THEN RunInstructionToIpld(task.run)
            ELSE IF k = "cause"
                 THEN (IF task.cause.some THEN PointerToIpld(task.cause.val) ELSE INull)
            ELSE task.meta])

\* impl From<Task> for Ipld
TaskToIpld(task) ==
    IMap([k \in {"run", "cause", "meta", "prf"} |->
            IF k = "run" THEN RunInstructionToIpld(task.run)
            ELSE IF k = "cause"
                 THEN (IF task.cause.some THEN PointerToIpld(task.cause.val) ELSE INull)
            ELSE IF k = "meta" THEN task.meta
            ELSE PrfToIpld(task.prf)])

\* The cause of a decoded task: None for a missing key and for null, and
\* for a value that does not convert to a Pointer.
TaskCauseFromMap(map) ==
    IF ~HasKey(map, "cause") THEN None
    ELSE IF map["cause"] = INull THEN None
    ELSE LET ptr == PointerFromIpld(map["cause"])
         IN  IF ptr.ok THEN Some(ptr.value) ELSE None

\* impl TryFrom<Ipld> for Task (the messages are written without the
\* backquotes that the source puts around the key).
TaskFromIpld(i) ==
    IF i.tag # "map" THEN Fail(<<"not", "a", "map">>)
    ELSE LET map == i.entries
         IN  IF ~HasKey(map, "run") THEN Fail(<<"no", "run", "set">>)
             ELSE LET run == RunInstructionFromIpld(map["run"])
                  IN  IF ~run.ok THEN run
                      ELSE IF ~HasKey(map, "meta") THEN Fail(<<"no", "metadata", "field", "set">>)
                      ELSE IF ~HasKey(map, "prf") THEN Fail(<<"no", "proof", "field", "set">>)
                      ELSE LET prf == PrfFromIpld(map["prf"])
                           IN  IF ~prf.ok THEN prf
                               ELSE Good([run |-> run.value,
                                          cause |-> TaskCauseFromMap(map),
                                          meta |-> map["meta"],
                                          prf |-> prf.value])

\* impl TryFrom<Task> for Cid: the digest of the encoded task, tagged DAG_CBOR.
TaskCid(task) == CidOf(TaskToIpld(task))

(***************************************************************************)
(* Receipt.                                                                *)
(***************************************************************************)
INVOCATION_VERSION == "0.2.0"

\* The invocation receipt of homestar-core: ran, out, meta, issuer, prf.
InvocationReceiptNew(ran, out, meta, issuer, prf) ==
    [ran |-> ran, out |-> out, meta |-> meta, issuer |-> issuer, prf |-> prf]

InvocationReceiptToIpld(inv) ==
    IMap([k \in {"ran", "out", "meta", "iss", "prf"} |->
            IF k = "ran" THEN PointerToIpld(inv.ran)
            ELSE IF k = "out" THEN InstructionResultToIpld(inv.out)
            ELSE IF k = "meta" THEN inv.meta
            ELSE IF k = "iss"
                 THEN (IF inv.issuer.some THEN IString(IssuerToString(inv.issuer.val))
                       ELSE INull)
            ELSE PrfToIpld(inv.prf)])

\* Cid::try_from(invocation_receipt)
InvocationReceiptCid(inv) == CidOf(InvocationReceiptToIpld(inv))

\* Receipt::new
ReceiptNew(cid, instruction, invocation_receipt) ==
    [cid |-> PointerNew(cid),
     ran |-> invocation_receipt.ran,
     instruction |-> instruction,
     out |-> invocation_receipt.out,
     meta |-> invocation_receipt.meta,
     issuer |-> invocation_receipt.issuer,
     prf |-> invocation_receipt.prf,
     version |-> INVOCATION_VERSION]

\* Receipt::try_with
ReceiptTryWith(instruction, invocation_receipt) ==
    ReceiptNew(InvocationReceiptCid(invocation_receipt), instruction, invocation_receipt)

\* Receipt::set_meta
ReceiptSetMeta(self, meta) == [self EXCEPT !.meta = meta]

\* impl From<&Receipt> for InvocationReceipt<Ipld>
InvocationReceiptFrom(r) == InvocationReceiptNew(r.ran, r.out, r.meta, r.issuer, r.prf)

\* impl From<Receipt> for Ipld
ReceiptToIpld(r) ==
    IMap([k \in {"cid", "ran", "instruction", "out", "meta", "iss", "prf", "version"} |->
            IF k = "cid" THEN PointerToIpld(r.cid)
            ELSE IF k = "ran" THEN PointerToIpld(r.ran)
            ELSE IF k = "instruction" THEN PointerToIpld(r.instruction)
            ELSE IF k = "out" THEN InstructionResultToIpld(r.out)
            ELSE IF k = "meta" THEN r.meta
            ELSE IF k = "iss"
                 THEN (IF r.issuer.some THEN IString(IssuerToString(r.issuer.val))
                       ELSE INull)
            ELSE IF k = "prf" THEN PrfToIpld(r.prf)
            ELSE IString(r.version)])

\* The issuer of a decoded receipt: None for a missing key and for null,
\* and for a value that does not convert to a principal.
ReceiptIssuerFromMap(map) ==
    IF ~HasKey(map, "iss") THEN None
    ELSE IF map["iss"] = INull THEN None
    ELSE LET principal == PrincipalFromIpld(map["iss"])
         IN  IF principal.ok THEN Some(IssuerNew(principal.value)) ELSE None

\* The first failure among the conversions of a receipt's map, in the order
\* in which try_from performs them; Good(TRUE) when there is none.
ReceiptFieldsChecked(map) ==
    IF ~HasKey(map, "cid") THEN Fail(<<"missing", "cid">>)
    ELSE IF ~CidFromIpld(map["cid"]).ok THEN CidFromIpld(map["cid"])
    ELSE IF ~HasKey(map, "ran") THEN Fail(<<"missing", "ran">>)
    ELSE IF ~PointerFromIpld(map["ran"]).ok THEN PointerFromIpld(map["ran"])
    ELSE IF ~HasKey(map, "instruction") THEN Fail(<<"missing", "instruction">>)
    ELSE IF ~PointerFromIpld(map["instruction"]).ok THEN PointerFromIpld(map["instruction"])
    ELSE IF ~HasKey(map, "out") THEN Fail(<<"missing", "out">>)
    ELSE IF ~HasKey(map, "meta") THEN Fail(<<"missing", "meta">>)
    ELSE IF ~HasKey(map, "prf") THEN Fail(<<"missing", "prf">>)
    ELSE IF ~HasKey(map, "version") THEN Fail(<<"missing", "version">>)
    ELSE IF ~StringFromIpld(map["version"]).ok THEN StringFromIpld(map["version"])
    ELSE IF ~InstructionResultFromIpld(map["out"]).ok THEN InstructionResultFromIpld(map["out"])
    ELSE IF ~PrfFromIpld(map["prf"]).ok THEN PrfFromIpld(map["prf"])
    ELSE Good(TRUE)

\* impl TryFrom<Ipld> for Receipt
ReceiptFromIpld(i) ==
    IF i.tag # "map" THEN Fail(<<"not", "a", "map">>)
    ELSE LET map == i.entries
             checked == ReceiptFieldsChecked(map)
         IN  IF ~checked.ok THEN checked
             ELSE Good([cid |-> PointerNew(CidFromIpld(map["cid"]).value),
                        ran |-> PointerFromIpld(map["ran"]).value,
                        instruction |-> PointerFromIpld(map["instruction"]).value,
                        out |-> InstructionResultFromIpld(map["out"]).value,
                        meta |-> map["meta"],
                        issuer |-> ReceiptIssuerFromMap(map),
                        prf |-> PrfFromIpld(map["prf"]).value,
                        version |-> StringFromIpld(map["version"]).value])

(***************************************************************************)
(* Workflow Info to and from Ipld.                                         *)
(***************************************************************************)
\* impl From<Info> for Ipld, with the count taken from the progress list.
InfoToIpldRecount(workflow) ==
    IMap([k \in {"cid", "progress", "progress_count", "num_tasks"} |->
            IF k = "cid" THEN ILink(workflow.cid)
            ELSE IF k = "progress"
                 THEN IList([n \in 1..Len(workflow.progress) |-> ILink(workflow.progress[n])])
            ELSE IF k = "progress_count" THEN IInteger(Len(workflow.progress))
            ELSE IInteger(workflow.num_tasks)])

\* impl From<Info> for Ipld
InfoToIpld(workflow) ==
    IMap([k \in {"cid", "progress", "progress_count", "num_tasks"} |->
            IF k = "cid" THEN ILink(workflow.cid)
            ELSE IF k = "progress"
                 THEN IList([n \in 1..Len(workflow.progress) |-> ILink(workflow.progress[n])])
            ELSE IF k = "progress_count" THEN IInteger(workflow.progress_count)
            ELSE IInteger(workflow.num_tasks)])

\* impl TryFrom<Ipld> for Info
InfoFromIpld(i) ==
    IF i.tag # "map" THEN Fail(<<"not", "a", "map">>)
    ELSE LET map == i.entries
         IN  IF ~HasKey(map, "cid") THEN Fail(<<"no", "cid", "set">>)
             ELSE IF ~CidFromIpld(map["cid"]).ok THEN CidFromIpld(map["cid"])
             ELSE IF ~HasKey(map, "progress") THEN Fail(<<"no", "progress", "set">>)
             ELSE IF ~CidsFromIpld(map["progress"]).ok THEN CidsFromIpld(map["progress"])
             ELSE IF ~HasKey(map, "progress_count") THEN Fail(<<"no", "progress_count", "set">>)
             ELSE IF ~U32FromIpld(map["progress_count"]).ok
                  THEN U32FromIpld(map["progress_count"])
             ELSE IF ~HasKey(map, "num_tasks") THEN Fail(<<"no", "num_tasks", "set">>)
             ELSE IF ~U32FromIpld(map["num_tasks"]).ok THEN U32FromIpld(map["num_tasks"])
             ELSE Good([cid |-> CidFromIpld(map["cid"]).value,
                        progress |-> CidsFromIpld(map["progress"]).value,
                        progress_count |-> U32FromIpld(map["progress_count"]).value,
                        num_tasks |-> U32FromIpld(map["num_tasks"]).value])

(***************************************************************************)
(* The runtime Receipt under its public operations (SpecReceipt).          *)
(***************************************************************************)
NoReceipt == [cid |-> NamedCid("none")]

PrfCids == {NamedCid("prfA"), NamedCid("prfB")}
Metas == {IMap([k \in {} |-> INull]), IMap([k \in {"op"} |-> IString("x")])}
Issuers == {None, Some(IssuerNew("did:key:z6Mk"))}
Outs == {[tag |-> t, value |-> IInteger(1)] : t \in ResultTags}
InstructionPointers == {PointerNew(NamedCid("insA"))}

InvocationReceipts ==
    {InvocationReceiptNew(ran, out, meta, issuer, prf) :
        ran \in InstructionPointers, out \in Outs, meta \in Metas,
        issuer \in Issuers, prf \in SeqsUpTo(PrfCids, MaxPrf)}

\* The identifiers a caller hands to Receipt::new: any Cid, among them
\* the identifiers of invocation receipts.
GivenCids == {NamedCid("given")} \cup {InvocationReceiptCid(inv) : inv \in InvocationReceipts}

InitReceiptIdle ==
    /\ receipt = NoReceipt
    /\ receiptOp = "none"

ReceiptCallNew(cid, instruction, invocation_receipt) ==
    /\ receiptOp = "none"
    /\ receipt' = ReceiptNew(cid, instruction, invocation_receipt)
    /\ receiptOp' = "new"
    /\ UNCHANGED <<gvars, ivars, cvars>>

ReceiptCallTryWith(instruction, invocation_receipt) ==
    /\ receiptOp = "none"
    /\ receipt' = ReceiptTryWith(instruction, invocation_receipt)
    /\ receiptOp' = "try_with"
    /\ UNCHANGED <<gvars, ivars, cvars>>

ReceiptCallSetMeta(meta) ==
    /\ receiptOp # "none"
    /\ receipt' = ReceiptSetMeta(receipt, meta)
    /\ receiptOp' = "set_meta"
    /\ UNCHANGED <<gvars, ivars, cvars>>

\* The receipt is written out and read back: Receipt::try_from on the
\* encoding of the receipt at hand.
ReceiptCallDecode ==
    /\ receiptOp # "none"
    /\ ReceiptFromIpld(ReceiptToIpld(receipt)).ok
    /\ receipt' = ReceiptFromIpld(ReceiptToIpld(receipt)).value
    /\ receiptOp' = "try_from"
    /\ UNCHANGED <<gvars, ivars, cvars>>

(***************************************************************************)
(* Encoding, decoding and identifier derivation (SpecCodec).  A run starts *)
(* from one value, a Task, a Receipt or a Workflow Info, and encodes it,   *)
(* decodes the encoding, or derives the identifier.                        *)
(***************************************************************************)
Instructions ==
    {[rsc |-> "ipfs://wasm", op |-> "wasm/run", input |-> IList(<<IInteger(1)>>), nnc |-> ""]}

Runs == {Expanded(ins) : ins \in Instructions} \cup {Ptr(ptr) : ptr \in InstructionPointers}
Causes == {None, Some(PointerNew(NamedCid("rcA")))}

Tasks ==
    {TaskNewWithCause(run, meta, prf, cause) :
        run \in Runs, meta \in Metas, prf \in SeqsUpTo(PrfCids, MaxPrf), cause \in Causes}

Receipts ==
    {ReceiptNew(cid, instruction, inv) :
        cid \in {NamedCid("given")}, instruction \in InstructionPointers,
        inv \in InvocationReceipts}
    \cup {ReceiptTryWith(instruction, inv) :
        instruction \in InstructionPointers, inv \in InvocationReceipts}

Infos ==
    {SetProgressCount(InfoNew(WfA.cid, progress, num_tasks), progress_count) :
        progress \in SeqsUpTo(InfoCids, MaxProgress), num_tasks \in InfoNumTasks,
        progress_count \in 0..MaxCount}

Subjects ==
    {[kind |-> "task", value |-> t] : t \in Tasks}
    \cup {[kind |-> "receipt", value |-> r] : r \in Receipts}
    \cup {[kind |-> "info", value |-> i] : i \in Infos}

NoSubject == [kind |-> "none"]
NoDecoded == [ok |-> FALSE, error |-> <<"not", "decoded">>]
NoIdent == NamedCid("none")
NotAltered == [how |-> "none"]

InitCodecIdle ==
    /\ subject = NoSubject
    /\ stage = "value"
    /\ encoded = INull
    /\ altered = NotAltered
    /\ decoded = NoDecoded
    /\ ident = NoIdent

InitCodec ==
    /\ subject \in Subjects
    /\ stage = "value"
    /\ encoded = INull
    /\ altered = NotAltered
    /\ decoded = NoDecoded
    /\ ident = NoIdent

\* A map as a peer or a store may hand it to try_from: the encoding of a
\* value with one key removed, or with one key set to a value of a shape
\* that its field does not take (meta takes any Ipld).
WrongShape(key) ==
    IF key \in {"prf", "out", "progress", "progress_count", "num_tasks"}
    THEN IString("x")
    ELSE IInteger(7)

RemoveKey(key) ==
    /\ stage = "encoded"
    /\ key \in DOMAIN encoded.entries
    /\ encoded' = IMap([k \in DOMAIN encoded.entries \ {key} |-> encoded.entries[k]])
    /\ altered' = [how |-> "removed", key |-> key]
    /\ stage' = "altered"
    /\ UNCHANGED <<subject, decoded, ident, gvars, ivars, rvars>>

MalformKey(key) ==
    /\ stage = "encoded"
    /\ key \in DOMAIN encoded.entries \ {"meta"}
    /\ encoded' = IMap([encoded.entries EXCEPT ![key] = WrongShape(key)])
    /\ altered' = [how |-> "malformed", key |-> key]
    /\ stage' = "altered"
    /\ UNCHANGED <<subject, decoded, ident, gvars, ivars, rvars>>

EncodeTask ==
    /\ stage = "value"
    /\ subject.kind = "task"
    /\ encoded' = TaskToIpld(subject.value)
    /\ stage' = "encoded"
    /\ UNCHANGED <<subject, altered, decoded, ident, gvars, ivars, rvars>>

DecodeTask ==
    /\ stage \in {"encoded", "altered"}
    /\ subject.kind = "task"
    /\ decoded' = TaskFromIpld(encoded)
    /\ stage' = IF stage = "encoded" THEN "decoded" ELSE "decoded_altered"
    /\ UNCHANGED <<subject, encoded, altered, ident, gvars, ivars, rvars>>

DeriveTaskCid ==
    /\ stage = "value"
    /\ subject.kind = "task"
    /\ ident' = TaskCid(subject.value)
    /\ stage' = "identified"
    /\ UNCHANGED <<subject, encoded, altered, decoded, gvars, ivars, rvars>>

EncodeReceipt ==
    /\ stage = "value"
    /\ subject.kind = "receipt"
    /\ encoded' = ReceiptToIpld(subject.value)
    /\ stage' = "encoded"
    /\ UNCHANGED <<subject, altered, decoded, ident, gvars, ivars, rvars>>

DecodeReceipt ==
    /\ stage \in {"encoded", "altered"}
    /\ subject.kind = "receipt"
    /\ decoded' = ReceiptFromIpld(encoded)
    /\ stage' = IF stage = "encoded" THEN "decoded" ELSE "decoded_altered"
    /\ UNCHANGED <<subject, encoded, altered, ident, gvars, ivars, rvars>>

EncodeInfo ==
    /\ stage = "value"
    /\ subject.kind = "info"
    /\ encoded' = InfoToIpld(subject.value)
    /\ stage' = "encoded"
    /\ UNCHANGED <<subject, altered, decoded, ident, gvars, ivars, rvars>>

DecodeInfo ==
    /\ stage \in {"encoded", "altered"}
    /\ subject.kind = "info"
    /\ decoded' = InfoFromIpld(encoded)
    /\ stage' = IF stage = "encoded" THEN "decoded" ELSE "decoded_altered"
    /\ UNCHANGED <<subject, encoded, altered, ident, gvars, ivars, rvars>>

(***************************************************************************)
(* The gather specification.                                               *)
(***************************************************************************)
InitGather ==
    /\ pc = [c \in Flows |-> "idle"]
    /\ wf = [c \in Flows |-> NoWorkflow]
    /\ lookup = [c \in Flows |-> "none"]
    /\ arm = [c \in Flows |-> "none"]
    /\ result = [c \in Flows |-> NoResult]
    /\ sentQuery = [c \in Flows |-> FALSE]
    /\ wrote = [c \in Flows |-> FALSE]
    /\ conn = [c \in Flows |-> FALSE]
    /\ elapsed = [c \in Flows |-> 0]
    /\ remaining = [c \in Flows |-> 0]
    /\ reply = [c \in Flows |-> <<>>]
    /\ dbWorkflows = {}
    /\ dbReceipts = [w \in WorkflowCids |-> <<>>]
    /\ events = <<>>
    /\ rxClosed = FALSE
    /\ pending = {}

Init == InitGather /\ InitInfoIdle /\ InitReceiptIdle /\ InitCodecIdle

Next ==
    \/ \E c \in Calls, w \in Workflows, ioFail \in BOOLEAN : GatherLookup(c, w, ioFail)
    \/ \E c \in Calls : GatherSend(c)
    \/ \E c \in Calls, storeOk \in BOOLEAN : GatherRecv(c, storeOk)
    \/ \E c \in Calls, storeOk \in BOOLEAN : GatherRecvErr(c, storeOk)
    \/ HandlerTake
    \/ \E c \in Calls, event \in FoundEvents : NetworkReply(c, event)
    \/ \E c \in Calls : NetworkDrop(c)
    \/ HandlerClose
    \/ \E w \in WorkflowCids : StoreWorkflowReceipt(w)
    \/ Tick

Spec == Init /\ [][Next]_vars

InitInfo == Init

NextInfo ==
    \/ \E cid \in {WfA.cid}, progress \in SeqsUpTo(InfoCids, MaxProgress),
          num_tasks \in InfoNumTasks : InfoCreateNew(cid, progress, num_tasks)
    \/ \E cid \in {WfA.cid}, num_tasks \in InfoNumTasks : InfoCreateDefault(cid, num_tasks)
    \/ \E progress_count \in 0..MaxCount : InfoSetProgressCount(progress_count)
    \/ \E new_cid \in InfoCids : InfoIncrementProgress(new_cid)

SpecInfo == InitInfo /\ [][NextInfo]_vars

InitReceipt == Init

NextReceipt ==
    \/ \E cid \in GivenCids, instruction \in InstructionPointers,
          inv \in InvocationReceipts : ReceiptCallNew(cid, instruction, inv)
    \/ \E instruction \in InstructionPointers, inv \in InvocationReceipts :
          ReceiptCallTryWith(instruction, inv)
    \/ \E meta \in Metas : ReceiptCallSetMeta(meta)
    \/ ReceiptCallDecode

SpecReceipt == InitReceipt /\ [][NextReceipt]_vars

InitCodecRun == InitGather /\ InitInfoIdle /\ InitReceiptIdle /\ InitCodec

NextCodec ==
    \/ EncodeTask
    \/ DecodeTask
    \/ DeriveTaskCid
    \/ EncodeReceipt
    \/ DecodeReceipt
    \/ EncodeInfo
    \/ DecodeInfo
    \/ \E key \in AllKeys : RemoveKey(key)
    \/ \E key \in AllKeys : MalformKey(key)

SpecCodec == InitCodecRun /\ [][NextCodec]_vars

(***************************************************************************)
(* Gather calls as flows of one runtime (SpecRuntime).  A flow runs on a   *)
(* worker thread of the runtime.  At send(..).await a flow that cannot go  *)
(* on yields its worker; recv_deadline is a blocking call, and the flow    *)
(* keeps its worker until the call returns.                                *)
(***************************************************************************)
WfB == [cid |-> OtherCid, len |-> 1]
RuntimeWorkflows == Workflows \cup {WfB}

\* The flow is inside recv_deadline, on a worker thread.
OnWorker(c) == pc[c] = "wait"

\* A worker thread is there to poll flow c.
WorkerFree(c) == Cardinality({d \in Flows \ {c} : OnWorker(d)}) < NumWorkers

RuntimeLookup(c, w) == WorkerFree(c) /\ GatherLookup(c, w, FALSE)

RuntimeSend(c) == WorkerFree(c) /\ GatherSend(c)

RuntimeRecv(c) == GatherRecv(c, TRUE)

RuntimeRecvErr(c) == GatherRecvErr(c, TRUE)

\* A flow cannot go on: its call is blocked, or no worker polls it.
RuntimeBlocked(c) == Blocked(c) \/ ~(OnWorker(c) \/ WorkerFree(c))

RuntimeTick ==
    /\ \E c \in Flows : Suspended(c)
    /\ \A c \in Flows : Suspended(c) => RuntimeBlocked(c) /\ elapsed[c] < MaxTime
    /\ elapsed' = [c \in Flows |-> IF Suspended(c) THEN elapsed[c] + 1 ELSE elapsed[c]]
    /\ remaining' = [c \in Flows |->
                       IF pc[c] = "wait" THEN remaining[c] - 1 ELSE remaining[c]]
    /\ UNCHANGED <<pc, wf, lookup, arm, result, sentQuery, wrote, conn, reply,
                   dbWorkflows, dbReceipts, events, rxClosed, pending, ovars>>

InitRuntime == Init

NextRuntime ==
    \/ \E c \in Flows, w \in RuntimeWorkflows : RuntimeLookup(c, w)
    \/ \E c \in Flows : RuntimeSend(c)
    \/ \E c \in Flows : RuntimeRecv(c)
    \/ \E c \in Flows : RuntimeRecvErr(c)
    \/ HandlerTake
    \/ \E c \in Flows, event \in FoundEvents : NetworkReply(c, event)
    \/ \E w \in WorkflowCids : StoreWorkflowReceipt(w)
    \/ RuntimeTick

SpecRuntime == InitRuntime /\ [][NextRuntime]_vars

(***************************************************************************)
(* Steps of one call, told from the state before and after.                *)
(***************************************************************************)
CallState(c) == <<pc[c], wf[c], lookup[c], arm[c], result[c], sentQuery[c], wrote[c]>>

\* Slot c starts a call and performs its lookup.
LookupStep(c) == pc[c] \in {"idle", "done"} /\ CallState(c)' # CallState(c)

\* The lookup of the call hits and the call returns.
HitStep(c) == LookupStep(c) /\ lookup'[c] = "hit"

\* recv_deadline returns with no reply in the channel, and the call returns.
RecvErrStep(c) == pc[c] = "wait" /\ pc'[c] = "done" /\ reply[c] = <<>>

\* recv_deadline returns the reply, and the call returns.
RecvStep(c) == pc[c] = "wait" /\ pc'[c] = "done" /\ reply[c] # <<>>

(***************************************************************************)
(* C1  Gather timeout-default.                                             *)
(***************************************************************************)
IsDefaultFor(i, w) ==
    /\ i.cid = w.cid
    /\ i.progress = <<>>
    /\ i.progress_count = 0
    /\ i.num_tasks = w.len

\* C1 as stated: whenever the lookup missed and the wait ends with no reply,
\* gather returns Ok with the zero-progress default of the workflow, and
\* persistence then holds the projection (cid, len).
C1_TimeoutAlwaysOk ==
    [][\A c \in Calls : RecvErrStep(c) =>
          /\ result'[c].tag = "ok"
          /\ IsDefaultFor(result'[c].info, wf[c])
          /\ StoredNew(wf[c].cid, AsI32(wf[c].len)) \in dbWorkflows']_vars

\* C1 as amended: the wait ends with no reply only once the deadline has
\* elapsed (or the reply channel's sender is gone); gather then returns Ok
\* with the zero-progress default and persistence holds the projection
\* (cid, len), unless store_workflow fails: then gather returns that error
\* and has written nothing.
C1_TimeoutDefault ==
    [][\A c \in Calls : RecvErrStep(c) =>
          /\ lookup[c] \in {"absent", "io"}
          /\ remaining[c] = 0 \/ ~TxAlive(c)
          /\ \/ /\ result'[c].tag = "ok"
                /\ IsDefaultFor(result'[c].info, wf[c])
                /\ StoredNew(wf[c].cid, AsI32(wf[c].len)) \in dbWorkflows'
                /\ wrote'[c]
             \/ /\ result'[c] = Err(PersistenceError)
                /\ dbWorkflows' = dbWorkflows
                /\ ~wrote'[c]]_vars

C1_Witness ==
    \E c \in Calls :
        /\ pc[c] = "done" /\ arm[c] = "timeout" /\ result[c].tag = "ok"
        /\ StoredNew(wf[c].cid, AsI32(wf[c].len)) \in dbWorkflows

C3_NetworkAlwaysOk ==
    [][\A c \in Calls : (RecvStep(c) /\ Head(reply[c]).tag = "Workflow") =>
          LET i == Head(reply[c]).info
          IN  /\ result'[c] = Ok(i)
              /\ StoredNew(i.cid, AsI32(i.num_tasks)) \in dbWorkflows']_vars

\* C3 as amended: gather returns exactly the info received and persistence
\* then holds the projection (info.cid, info.num_tasks as i32), unless
\* store_workflow fails: then gather returns that error and has written
\* nothing.
C3_NetworkHit ==
    [][\A c \in Calls : (RecvStep(c) /\ Head(reply[c]).tag = "Workflow") =>
          LET i == Head(reply[c]).info
          IN  /\ lookup[c] \in {"absent", "io"}
              /\ \/ /\ result'[c] = Ok(i)
                    /\ StoredNew(i.cid, AsI32(i.num_tasks)) \in dbWorkflows'
                    /\ wrote'[c]
                 \/ /\ result'[c] = Err(PersistenceError)
                    /\ dbWorkflows' = dbWorkflows
                    /\ ~wrote'[c]]_vars

C3_Witness ==
    \E c \in Calls :
        /\ pc[c] = "done" /\ arm[c] = "workflow" /\ result[c].tag = "ok"
        /\ result[c].info \in NetInfos
        /\ StoredNew(result[c].info.cid, AsI32(result[c].info.num_tasks)) \in dbWorkflows

(***************************************************************************)
(* C4  Unexpected-reply failure.                                           *)
(***************************************************************************)
\* C4: when the reply received is not a Workflow event, gather returns an
\* error that names that event and the workflow's identifier; it returns no
\* Info and writes nothing to persistence.
C4_UnexpectedReply ==
    [][\A c \in Calls : (RecvStep(c) /\ Head(reply[c]).tag # "Workflow") =>
          /\ result'[c].tag = "err"
          /\ result'[c].err.kind = "unexpected_event"
          /\ result'[c].err.event = Head(reply[c])
          /\ result'[c].err.cid = wf[c].cid
          /\ ~wrote'[c]
          /\ dbWorkflows' = dbWorkflows]_vars

C4_Witness ==
    \E c \in Calls :
        /\ pc[c] = "done" /\ arm[c] = "unexpected"
        /\ result[c] = Err(UnexpectedEvent(FoundReceipt(NamedCid("rcA")), wf[c].cid))

(***************************************************************************)
(* C5  No hang.                                                            *)
(***************************************************************************)
\* C5: no call stays suspended for longer than the configured deadline.
C5_NoHang == \A c \in Calls : Suspended(c) => elapsed[c] <= P2pTimeoutSecs

(***************************************************************************)
(* C6  Workflow Info count invariant.                                      *)
(***************************************************************************)
\* C6: in every Info reached from Info::new or Info::default by
\* increment_progress and set_progress_count, progress_count >= progress.len().
C6_CountInvariant == lastOp # "none" => info.progress_count >= Len(info.progress)

(***************************************************************************)
(* C7  Monotonic progress.                                                 *)
(***************************************************************************)
\* C7: after increment_progress(c), progress_count is strictly greater than
\* before, c is the last element of progress and the earlier elements are
\* unchanged.
C7_MonotonicProgress ==
    lastOp = "increment_progress" =>
        /\ info.progress_count > prevInfo.progress_count
        /\ info.progress = Append(prevInfo.progress, lastArg)


(***************************************************************************)
(* C8  Receipt identity invariant.                                         *)
(***************************************************************************)
DerivedReceiptCid(r) == PointerNew(InvocationReceiptCid(InvocationReceiptFrom(r)))

\* C8: every Receipt reached through Receipt::new (with any cid),
\* Receipt::try_with, set_meta and decoding stores as its cid the identifier
\* derived again from InvocationReceipt::from(&receipt).
C8_ReceiptIdentity ==
    receiptOp # "none" => receipt.cid = DerivedReceiptCid(receipt)

(***************************************************************************)
(* C9  Round-trip law.                                                     *)
(***************************************************************************)
\* C9: decoding the encoding of a valid Task, Receipt or Workflow Info
\* succeeds with a value equal to the original, the RunInstruction variant
\* and the presence of the optional field kept.
C9_RoundTrip ==
    stage = "decoded" => decoded = Good(subject.value)

\* A Workflow Info whose progress_count differs from the length of its
\* progress list has been encoded and decoded.
C9_Witness ==
    /\ stage = "decoded"
    /\ subject.kind = "info"
    /\ subject.value.progress_count # Len(subject.value.progress)
    /\ decoded.ok

(***************************************************************************)
(* C10  Identifier determinism for tasks.                                  *)
(***************************************************************************)
\* C10: the Cid of a Task is decided by its encoding: a task with the same
\* encoding gets the same identifier, and a task that differs in meta or
\* in the prf chain gets a different one (the digest taken as injective).
C10_TaskCidDeterminism ==
    stage = "identified" =>
        \A other \in Tasks :
            /\ TaskToIpld(other) = TaskToIpld(subject.value) => TaskCid(other) = ident
            /\ other = subject.value => TaskCid(other) = ident
            /\ (other.meta # subject.value.meta \/ other.prf # subject.value.prf)
                   => TaskCid(other) # ident

\* The identifier of a task with a proof entry has been derived, and the
\* same task without the entry is among those compared with it.
C10_Witness ==
    /\ stage = "identified"
    /\ Len(subject.value.prf) > 0
    /\ \E other \in Tasks :
          /\ other.prf = SubSeq(subject.value.prf, 1, Len(subject.value.prf) - 1)
          /\ other.run = subject.value.run
          /\ other.meta = subject.value.meta
          /\ other.cause = subject.value.cause
          /\ TaskCid(other) # ident


(***************************************************************************)
(* C11  Missing-field decode failure.                                      *)
(***************************************************************************)
Words(msg) == {msg[k] : k \in 1..Len(msg)}

\* C11: decoding the map of a Task, a Receipt or a Workflow Info from which
\* one required key has been removed fails, and the error names that key.
C11_MissingFieldNamed ==
    (/\ stage = "decoded_altered"
     /\ altered.how = "removed"
     /\ altered.key \in RequiredKeys(subject.kind))
        => (~decoded.ok /\ altered.key \in Words(decoded.error))

(***************************************************************************)
(* C12  No best-effort decode.                                             *)
(***************************************************************************)
\* C12: decoding the map of a Task or a Receipt in which a key, the optional
\* cause or iss included, holds a non-null value of the wrong shape fails;
\* it never succeeds with the field read as None.
C12_NoBestEffortDecode ==
    (/\ stage = "decoded_altered"
     /\ altered.how = "malformed"
     /\ subject.kind \in {"task", "receipt"})
        => ~decoded.ok


(***************************************************************************)
(* C13  Persistence error handling in gather.                              *)
(***************************************************************************)
\* C13: a failure of persistence makes gather return that error, except an
\* initial lookup that finds the workflow absent, which is a miss: a lookup
\* that fails for another reason returns the error and sends no query, and
\* a failed store_workflow after a reply or at the deadline returns the
\* error and no Info.
C13_PersistenceErrors ==
    [][\A c \in Calls :
          /\ (LookupStep(c) /\ lookup'[c] = "io") =>
                /\ pc'[c] = "done"
                /\ result'[c] = Err(PersistenceError)
          /\ lookup[c] = "io" => ~(sentQuery'[c] /\ ~sentQuery[c])
          /\ (RecvErrStep(c) \/ (RecvStep(c) /\ Head(reply[c]).tag = "Workflow")) =>
                (wrote'[c] \/ result'[c] = Err(PersistenceError))]_vars


(***************************************************************************)
(* C14  Connection not held across the network wait.                       *)
(***************************************************************************)
\* C14: a call that missed in persistence does not hold the persistence
\* connection while it waits on its reply channel: the connection of the
\* lookup is released before the wait begins.
C14_ConnectionNotHeld == \A c \in Calls : pc[c] = "wait" => ~conn[c]


(***************************************************************************)
(* C15  Non-blocking wait.                                                 *)
(***************************************************************************)
\* C15: while a gather call waits on its reply channel, before the reply
\* and before the deadline, a gather call for another workflow on the same
\* runtime can take its steps: the wait suspends the calling flow only.
C15_NonBlockingWait ==
    \A c \in Flows, d \in Flows :
        (/\ d = c + 1
         /\ pc[c] = "wait" /\ Blocked(c)
         /\ \A e \in 1..c : Suspended(e)
         /\ pc[d] \in {"idle", "done"})
            => ENABLED (\E w \in RuntimeWorkflows \ {wf[c]} : RuntimeLookup(d, w))


(***************************************************************************)
(* C16  Gather is consistent with the workflow it was asked about.         *)
(***************************************************************************)
\* C16: every successful gather(w) returns an Info whose cid is w's
\* identifier and whose num_tasks is w.len(), and leaves the projection
\* (w's identifier, w.len()) in persistence, so that the next gather(w) is
\* a cache hit with the same cid and num_tasks.
C16_GatherSelfConsistent ==
    [][\A c \in Calls :
          (CallState(c)' # CallState(c) /\ pc'[c] = "done" /\ result'[c].tag = "ok") =>
              LET w == wf'[c]
                  i == result'[c].info
              IN  /\ i.cid = w.cid
                  /\ i.num_tasks = w.len
                  /\ HasWorkflow(dbWorkflows', w.cid)
                  /\ AsU32(SelectWorkflow(dbWorkflows', w.cid).num_tasks) = w.len]_vars

(***************************************************************************)
(* C17  Info::new and increment_progress agree.                            *)
(***************************************************************************)
\* C17: increment_progress(c) on Info::new(cid, p, num_tasks) gives
\* Info::new(cid, p ++ [c], num_tasks): from a state whose progress_count is
\* the length of its progress, the two stay equal.
C17_NewIncrementAgree ==
    (/\ lastOp = "increment_progress"
     /\ prevInfo = InfoNew(prevInfo.cid, prevInfo.progress, prevInfo.num_tasks))
        => info = InfoNew(prevInfo.cid, Append(prevInfo.progress, lastArg), prevInfo.num_tasks)

=============================================================================
